---------------------------- MODULE Spec2Model ----------------------------
(***************************************************************************)
(* A model of the three programs of tiny-llm-cicd:                         *)
(*   - api/app.py            the Flask serving process (SpecApi), and its  *)
(*                           response-extraction step on its own           *)
(*                           (SpecExtract);                                *)
(*   - evaluate_model.py     the perplexity evaluation run (SpecEval);     *)
(*   - create_tiny_model.py  the model creation run (SpecCreate).          *)
(* Text is a sequence of one-character strings.  The pretrained-model      *)
(* library (tokenizer, model, generate) and the framework are the          *)
(* environment: their results are inputs drawn from small sets.            *)
(***************************************************************************)
EXTENDS Integers, Sequences, FiniteSets, TLC

VARIABLES
    \* ---- response extraction on its own (api/app.py lines 55-56)
    exPc, exDecoded, exResult, exAgain,
    \* ---- the serving process (api/app.py)
    srvPc,          \* how far module start-up got, "serving" once app.run runs
    promptFile,     \* system_prompt.txt on disk
    strictJson,     \* the installed Werkzeug rejects a body that is not JSON
    system_prompt,  \* module global, app.py line 24
    tokenizer,      \* module global, app.py line 28
    model,          \* module global, app.py line 29
    reqs,           \* the request of each client connection
    \* ---- one evaluation run (evaluate_model.py)
    evPc,               \* the position of the run
    valFile,            \* the validation file on disk
    perplexity_threshold,
    output_file,        \* TRUE when an output file is configured
    outFile0,           \* the output file on disk before the run
    outFile,            \* the output file on disk
    validation_texts,   \* calculate_perplexity: the lines
    lineIdx,            \* calculate_perplexity: the line scored next
    total_loss,
    total_tokens,
    scored,             \* history: <<loss, token count>> of each line scored
    perplexity,
    samples,
    evaluation_results,
    raisedAt,           \* the step whose exception ended the run, or "none"
    returned,           \* what main returned, a sequence of zero or one boolean
    exitCode,           \* the exit status, -1 while the process runs
    writes,             \* history: completed writes of the output file
    \* ---- runs of create_tiny_model.py main, one after the other
    crPc,           \* the position of the current run
    runs,           \* runs started so far
    train,
    force_train,
    gcs_path,       \* "" or the bucket path
    gcsModel,       \* what the bucket path holds: "none", "base" or "tuned"
    modelDir,       \* model_dir on disk: [tokenizer, model]
    memModel,       \* the model in memory: "none", "base" or "tuned"
    crLog,          \* history: the calls main made in this run, in order
    crFailed,       \* history: the transfers that failed in this run
    crRaisedAt      \* the call whose exception ended the run, or "none"

exVars == <<exPc, exDecoded, exResult, exAgain>>

apiVars ==
    <<srvPc, promptFile, strictJson, system_prompt, tokenizer, model, reqs>>

evalVars ==
    <<evPc, valFile, perplexity_threshold, output_file, outFile0, outFile,
      validation_texts, lineIdx, total_loss, total_tokens, scored, perplexity,
      samples, evaluation_results, raisedAt, returned, exitCode, writes>>

createVars ==
    <<crPc, runs, train, force_train, gcs_path, gcsModel, modelDir, memModel,
      crLog, crFailed, crRaisedAt>>

vars == <<exVars, apiVars, evalVars, createVars>>

\* What the actions of one program leave alone: the other programs' state.
notEx == <<apiVars, evalVars, createVars>>
notApi == <<exVars, evalVars, createVars>>
notEval == <<exVars, apiVars, createVars>>
notCreate == <<exVars, apiVars, evalVars>>

-----------------------------------------------------------------------------
(* Text helpers: Python's str operations on sequences of characters.       *)

\* The characters str.strip() removes (the ones the model's alphabets use).
Whitespace == {" ", "\n"}

\* The role marker of api/app.py.
Marker == <<"B", "o", "t", ":">>

RECURSIVE LStrip(_)
LStrip(s) ==
    IF s # <<>> /\ Head(s) \in Whitespace THEN LStrip(Tail(s)) ELSE s

RECURSIVE RStrip(_)
RStrip(s) ==
    IF s # <<>> /\ s[Len(s)] \in Whitespace
    THEN RStrip(SubSeq(s, 1, Len(s) - 1))
    ELSE s

\* str.strip()
Strip(s) == RStrip(LStrip(s))

\* p occurs in s at index i
OccursAt(s, p, i) ==
    /\ i >= 1
    /\ i + Len(p) - 1 <= Len(s)
    /\ SubSeq(s, i, i + Len(p) - 1) = p

\* Python's `p in s`
Contains(s, p) == \E i \in 1..(Len(s) + 1) : OccursAt(s, p, i)

\* str.find from index i on, scanning left to right; 0 when p does not occur
RECURSIVE FindFrom(_, _, _)
FindFrom(s, p, i) ==
    IF i + Len(p) - 1 > Len(s) THEN 0
    ELSE IF OccursAt(s, p, i) THEN i
    ELSE FindFrom(s, p, i + 1)

\* str.split(sep, 1): the list of one or two parts
SplitOnce(s, sep) ==
    LET i == FindFrom(s, sep, 1)
    IN  IF i = 0 THEN <<s>>
        ELSE <<SubSeq(s, 1, i - 1), SubSeq(s, i + Len(sep), Len(s))>>

\* str.split(sep): the list of all parts (never empty)
RECURSIVE SplitAll(_, _)
SplitAll(s, sep) ==
    LET i == FindFrom(s, sep, 1)
    IN  IF i = 0 THEN <<s>>
        ELSE <<SubSeq(s, 1, i - 1)>> \o SplitAll(SubSeq(s, i + Len(sep), Len(s)), sep)

\* xs[-1]
Last(xs) == xs[Len(xs)]

RECURSIVE Flatten(_)
Flatten(ps) == IF ps = <<>> THEN <<>> ELSE Head(ps) \o Flatten(Tail(ps))

-----------------------------------------------------------------------------
(* The response extraction of POST /generate, as a pure function.          *)

\* A mutant of ExtractResponse: the last marker is used instead of the first.
RECURSIVE ExtractAfterLastMarker(_)
ExtractAfterLastMarker(response_text) ==
    IF Contains(response_text, Marker)
    THEN LET rest == Last(SplitOnce(response_text, Marker))
         IN  IF Contains(rest, Marker) THEN ExtractAfterLastMarker(rest)
             ELSE Strip(rest)
    ELSE response_text

\* app.py lines 55-56: the text after the first marker, stripped; a text
\* without the marker is passed through as it is.
ExtractResponse(response_text) ==
    IF Contains(response_text, Marker)
    THEN Strip(Last(SplitOnce(response_text, Marker)))
    ELSE response_text

\* The decoded texts tried: every concatenation of at most MaxPieces pieces,
\* and the text of the spec's end-to-end scenario 1.
MaxPieces == 4

Pieces == {Marker, <<" ">>, <<"\n">>, <<"x">>, <<"B">>}

ExampleDecoded ==
    <<".", ".", ".", " ", "B", "o", "t", ":", " ",
      "H", "i", " ", "t", "h", "e", "r", "e">>

ExampleResponse == <<"H", "i", " ", "t", "h", "e", "r", "e">>

DecodedTexts ==
    {Flatten(ps) : ps \in UNION {[1..n -> Pieces] : n \in 0..MaxPieces}}
        \cup {ExampleDecoded}

NoText == <<"<", "n", "o", "n", "e", ">">>

ExIdle ==
    /\ exPc = "unused"
    /\ exDecoded = NoText
    /\ exResult = NoText
    /\ exAgain = NoText

ExInit ==
    /\ exPc = "decoded"
    /\ exDecoded \in DecodedTexts
    /\ exResult = NoText
    /\ exAgain = NoText

\* The extraction step applied to the decoded text.
ExExtract ==
    /\ exPc = "decoded"
    /\ exResult' = ExtractResponse(exDecoded)
    /\ exPc' = "extracted"
    /\ UNCHANGED <<exDecoded, exAgain, notEx>>

\* The extraction step applied again, to its own result.
ExExtractAgain ==
    /\ exPc = "extracted"
    /\ exAgain' = ExtractResponse(exResult)
    /\ exPc' = "again"
    /\ UNCHANGED <<exDecoded, exResult, notEx>>

ExNext == ExExtract \/ ExExtractAgain

-----------------------------------------------------------------------------
(* api/app.py: the serving process.                                        *)

\* A file on disk: present with a text, or missing.
File(text) == [exists |-> TRUE, text |-> text]
MissingFile == [exists |-> FALSE, text |-> <<>>]

\* The contents of system_prompt.txt tried.
SystemPromptFiles ==
    {MissingFile, File(<<>>), File(<<"S">>), File(<<" ", "S", "\n">>)}

\* JSON values of the prompt key: a string, or null.
JsonStr(text) == [t |-> "str", v |-> text]
JsonNull == [t |-> "null", v |-> <<>>]
NoValue == [t |-> "unset", v |-> <<>>]

PromptValues ==
    {JsonStr(<<>>), JsonStr(<<"x">>), JsonStr(<<" ", "x">>), JsonStr(Marker),
     JsonNull}

\* Request bodies: no JSON body at all, a JSON array, a JSON object without
\* the prompt key, a JSON object with it.
NoJsonBody == [kind |-> "none", has_prompt |-> FALSE, prompt |-> NoValue]
ArrayBody == [kind |-> "array", has_prompt |-> FALSE, prompt |-> NoValue]
EmptyObject == [kind |-> "object", has_prompt |-> FALSE, prompt |-> NoValue]
PromptObject(v) == [kind |-> "object", has_prompt |-> TRUE, prompt |-> v]

Bodies ==
    {NoJsonBody, ArrayBody, EmptyObject} \cup {PromptObject(v) : v \in PromptValues}

\* The requests tried: POST /generate with each body, GET /health, and a
\* GET of a static path.
Requests ==
    {[route |-> "generate", body |-> b] : b \in Bodies}
        \cup {[route |-> "health", body |-> NoJsonBody],
              [route |-> "static", body |-> NoJsonBody]}

\* What tokenizer.encode returns for a text: a tensor of no or of some
\* input ids.
EncodedIds == {"empty", "nonempty"}

\* app.py line 43: the cap on generated tokens passed to model.generate.
max_new_tokens == 50

\* What tokenizer.decode returns for the generated tokens.
ApiDecodedTexts ==
    {<<"x">>, <<" ", "x">>, Marker \o <<" ", "x", "\n">>}

\* The client connections: each carries one request at a time, and the
\* requests of different connections are handled concurrently.
ReqIds == {"c1", "c2"}

NoResponse == [status |-> 0, kind |-> "none", body |-> NoText, caught |-> "none"]

IdleReq ==
    [pc |-> "idle", route |-> "none", body |-> NoJsonBody,
     user_input |-> NoValue, combined |-> NoText,
     input_ids |-> "unset",
     failedAt |-> "none", decoded |-> NoText, response |-> NoResponse,
     after_error |-> FALSE]

\* str(value) as an f-string renders it
PyFormat(value) ==
    IF value.t = "str" THEN value.v ELSE <<"N", "o", "n", "e">>

\* request.json (app.py line 34): the parsed body; None without a JSON body,
\* unless the installed Werkzeug answers 415 there.
RequestJson(body) ==
    IF body.kind = "none"
    THEN IF strictJson THEN [raises |-> "UnsupportedMediaType", value |-> body]
         ELSE [raises |-> "no", value |-> EmptyObject]   \* None or {} is {}
    ELSE [raises |-> "no", value |-> body]

\* data.get("prompt", "") (app.py line 35)
GetPrompt(data) ==
    IF data.kind # "object" THEN [raises |-> "AttributeError", value |-> NoValue]
    ELSE IF data.has_prompt THEN [raises |-> "no", value |-> data.prompt]
    ELSE [raises |-> "no", value |-> JsonStr(<<>>)]

\* A mutant of CombinedPrompt: the user input is stripped before it is used.
CombinedPromptStripped(sys, user_input) ==
    sys \o <<"\n", "U", "s", "e", "r", ":", " ">>
        \o Strip(PyFormat(user_input)) \o <<"\n">> \o Marker

\* app.py line 37: f"{system_prompt}\nUser: {user_input}\nBot:"
CombinedPrompt(sys, user_input) ==
    sys \o <<"\n", "U", "s", "e", "r", ":", " ">>
        \o PyFormat(user_input) \o <<"\n">> \o Marker

\* An exception that leaves the view function: generate_text has no
\* try/except, so Flask answers for it, with an HTML error page.
UnhandledResponse(exc) ==
    [status |-> IF exc = "UnsupportedMediaType" THEN 415 ELSE 500,
     kind |-> "html", body |-> NoText, caught |-> "framework"]

JsonResponse(text) ==
    [status |-> 200, kind |-> "json", body |-> text, caught |-> "none"]

\* The request r ends with the response for an exception raised at `stage`.
Fail(r, stage, exc) ==
    reqs' = [reqs EXCEPT ![r].pc = "responded",
                         ![r].failedAt = stage,
                         ![r].response = UnhandledResponse(exc)]

ApiIdle ==
    /\ srvPc = "unused"
    /\ promptFile = MissingFile
    /\ strictJson = FALSE
    /\ system_prompt = NoText
    /\ tokenizer = "unset"
    /\ model = "unset"
    /\ reqs = [r \in ReqIds |-> IdleReq]

ApiInit ==
    /\ srvPc = "boot"
    /\ promptFile \in SystemPromptFiles
    /\ strictJson \in BOOLEAN
    /\ system_prompt = NoText
    /\ tokenizer = "unset"
    /\ model = "unset"
    /\ reqs = [r \in ReqIds |-> IdleReq]

\* app.py lines 22-24: the system prompt is read, stripped; a missing file
\* raises at import and the process ends.
LoadSystemPrompt ==
    /\ srvPc = "boot"
    /\ IF promptFile.exists
       THEN /\ system_prompt' = Strip(promptFile.text)
            /\ srvPc' = "prompt_loaded"
       ELSE /\ srvPc' = "aborted"
            /\ UNCHANGED system_prompt
    /\ UNCHANGED <<promptFile, strictJson, tokenizer, model, reqs, notApi>>

\* app.py line 28: AutoTokenizer.from_pretrained(MODEL_PATH), or it raises.
LoadTokenizer ==
    /\ srvPc = "prompt_loaded"
    /\ \E ok \in BOOLEAN :
          IF ok
          THEN tokenizer' = "loaded" /\ srvPc' = "tokenizer_loaded"
          ELSE srvPc' = "aborted" /\ UNCHANGED tokenizer
    /\ UNCHANGED <<promptFile, strictJson, system_prompt, model, reqs, notApi>>

\* A start-up that goes on to serve when the model cannot be loaded.
LoadModelOptional ==
    /\ srvPc = "tokenizer_loaded"
    /\ \E ok \in BOOLEAN :
          /\ srvPc' = "serving"
          /\ model' = IF ok THEN "loaded" ELSE model
    /\ UNCHANGED <<promptFile, strictJson, system_prompt, tokenizer, reqs, notApi>>

\* app.py lines 29 and 71-72: AutoModelForCausalLM.from_pretrained, or it
\* raises; then app.run starts serving.
LoadModel ==
    /\ srvPc = "tokenizer_loaded"
    /\ \E ok \in BOOLEAN :
          IF ok
          THEN model' = "loaded" /\ srvPc' = "serving"
          ELSE srvPc' = "aborted" /\ UNCHANGED model
    /\ UNCHANGED <<promptFile, strictJson, system_prompt, tokenizer, reqs, notApi>>

\* Some request of this process was answered with an error status.
AnyErrorSent ==
    \E q \in ReqIds : reqs[q].pc = "responded" /\ reqs[q].response.status >= 400

\* A request arrives on a connection that is free (never used, or its last
\* response sent) and is dispatched to its route.
Receive(r) ==
    /\ srvPc = "serving"
    /\ reqs[r].pc \in {"idle", "responded"}
    /\ \E q \in Requests :
          reqs' = [reqs EXCEPT ![r] =
                      [IdleReq EXCEPT !.pc = "received", !.route = q.route,
                                      !.body = q.body,
                                      !.after_error = AnyErrorSent]]
    /\ UNCHANGED <<srvPc, promptFile, strictJson, system_prompt, tokenizer,
                   model, notApi>>

\* app.py lines 34-35
GenParse(r) ==
    /\ reqs[r].pc = "received"
    /\ reqs[r].route = "generate"
    /\ LET json == RequestJson(reqs[r].body)
           got == GetPrompt(json.value)
       IN  IF json.raises # "no" THEN Fail(r, "parse", json.raises)
           ELSE IF got.raises # "no" THEN Fail(r, "parse", got.raises)
           ELSE /\ reqs' = [reqs EXCEPT ![r].pc = "parsed",
                                        ![r].user_input = got.value]
    /\ UNCHANGED <<srvPc, promptFile, strictJson, system_prompt, tokenizer,
                   model, notApi>>

\* A handler that keeps the conversation: it stores the combined prompt as
\* the process-wide system prompt of the requests to come.
GenEncodeRemembers(r) ==
    /\ reqs[r].pc = "parsed"
    /\ LET text == CombinedPrompt(system_prompt, reqs[r].user_input)
       IN  /\ system_prompt' = text
           /\ \E ok \in BOOLEAN :
                 IF ok
                 THEN \E ids \in EncodedIds :
                         reqs' = [reqs EXCEPT ![r].pc = "encoded",
                                              ![r].combined = text,
                                              ![r].input_ids = ids]
                 ELSE reqs' = [reqs EXCEPT ![r].pc = "responded",
                                           ![r].combined = text,
                                           ![r].failedAt = "encode",
                                           ![r].response =
                                               UnhandledResponse("Exception")]
    /\ UNCHANGED <<srvPc, promptFile, strictJson, tokenizer, model, notApi>>

\* app.py lines 37-38: the combined prompt is handed to tokenizer.encode,
\* which returns the input ids, as many as the tokenizer of the model
\* directory makes of the text, or raises.
GenEncode(r) ==
    /\ reqs[r].pc = "parsed"
    /\ LET text == CombinedPrompt(system_prompt, reqs[r].user_input)
       IN  \E ok \in BOOLEAN :
              IF ok
              THEN \E ids \in EncodedIds :
                      reqs' = [reqs EXCEPT ![r].pc = "encoded",
                                           ![r].combined = text,
                                           ![r].input_ids = ids]
              ELSE reqs' = [reqs EXCEPT ![r].pc = "responded",
                                        ![r].combined = text,
                                        ![r].failedAt = "encode",
                                        ![r].response =
                                            UnhandledResponse("Exception")]
    /\ UNCHANGED <<srvPc, promptFile, strictJson, system_prompt, tokenizer,
                   model, notApi>>

\* app.py lines 40-49: model.generate returns the output ids or raises.
GenGenerate(r) ==
    /\ reqs[r].pc = "encoded"
    /\ \E ok \in BOOLEAN :
          IF ok
          THEN reqs' = [reqs EXCEPT ![r].pc = "generated"]
          ELSE Fail(r, "generate", "Exception")
    /\ UNCHANGED <<srvPc, promptFile, strictJson, system_prompt, tokenizer,
                   model, notApi>>

\* app.py lines 51-58: the new tokens are decoded (or decode raises), the
\* response is extracted and returned as JSON.
GenRespond(r) ==
    /\ reqs[r].pc = "generated"
    /\ \/ \E text \in ApiDecodedTexts :
             reqs' = [reqs EXCEPT ![r].pc = "responded",
                                  ![r].decoded = text,
                                  ![r].response =
                                      JsonResponse(ExtractResponse(text))]
       \/ Fail(r, "decode", "Exception")
    /\ UNCHANGED <<srvPc, promptFile, strictJson, system_prompt, tokenizer,
                   model, notApi>>

\* app.py lines 61-68
HealthCheck(r) ==
    /\ reqs[r].pc = "received"
    /\ reqs[r].route = "health"
    /\ reqs' = [reqs EXCEPT ![r].pc = "responded",
                            ![r].response = JsonResponse(<<"o", "k">>)]
    /\ UNCHANGED <<srvPc, promptFile, strictJson, system_prompt, tokenizer,
                   model, notApi>>

\* app.py lines 11-18: send_from_directory serves the file or answers 404.
ServeStatic(r) ==
    /\ reqs[r].pc = "received"
    /\ reqs[r].route = "static"
    /\ \E found \in BOOLEAN :
          reqs' = [reqs EXCEPT ![r].pc = "responded",
                               ![r].response =
                                   [status |-> IF found THEN 200 ELSE 404,
                                    kind |-> IF found THEN "file" ELSE "html",
                                    body |-> NoText, caught |-> "none"]]
    /\ UNCHANGED <<srvPc, promptFile, strictJson, system_prompt, tokenizer,
                   model, notApi>>

ApiNext ==
    \/ LoadSystemPrompt
    \/ LoadTokenizer
    \/ LoadModel
    \/ \E r \in ReqIds :
          \/ Receive(r)
          \/ GenParse(r)
          \/ GenEncode(r)
          \/ GenGenerate(r)
          \/ GenRespond(r)
          \/ HealthCheck(r)
          \/ ServeStatic(r)

-----------------------------------------------------------------------------
(* evaluate_model.py: one evaluation run.                                  *)

\* Numbers.  A loss is an exact fraction <<numerator, denominator>> in
\* lowest terms; a perplexity or a threshold is +infinity or exp(ln) for a
\* fraction ln, so that math.exp is strictly increasing and loses nothing.
RECURSIVE GCD(_, _)
GCD(a, b) == IF b = 0 THEN a ELSE GCD(b, a % b)

Norm(q) == LET g == GCD(q[1], q[2]) IN <<q[1] \div g, q[2] \div g>>

RatAdd(a, b) == Norm(<<a[1] * b[2] + b[1] * a[2], a[2] * b[2]>>)
RatMul(a, b) == Norm(<<a[1] * b[1], a[2] * b[2]>>)
RatDiv(a, b) == Norm(<<a[1] * b[2], a[2] * b[1]>>)
RatLE(a, b) == a[1] * b[2] <= b[1] * a[2]
RatLT(a, b) == a[1] * b[2] < b[1] * a[2]

Zero == <<0, 1>>
FromInt(n) == <<n, 1>>

\* math.exp(x)
ExpOf(x) == [inf |-> FALSE, ln |-> x]
\* float('inf')
Infinity == [inf |-> TRUE, ln |-> Zero]
NoFloat == [inf |-> FALSE, ln |-> <<0, 0>>]

\* A mutant of FloatLE: a strict comparison.
FloatLT(a, b) ==
    IF a.inf THEN FALSE ELSE b.inf \/ RatLT(a.ln, b.ln)

\* a <= b on floats (evaluate_model.py lines 136 and 146)
FloatLE(a, b) ==
    IF a.inf THEN b.inf ELSE b.inf \/ RatLE(a.ln, b.ln)

\* The validation files tried: every text of at most MaxFileLen characters
\* over FileAlphabet, and no file at all.
MaxFileLen == 4
FileAlphabet == {"a", "b", "\n"}

ValidationFiles ==
    {File(t) : t \in UNION {[1..n -> FileAlphabet] : n \in 0..MaxFileLen}}
        \cup {MissingFile}

\* --perplexity-threshold
Thresholds == {ExpOf(<<1, 1>>), ExpOf(<<3, 2>>), ExpOf(<<5, 1>>)}

\* calculate_perplexity's max_length (evaluate_model.py line 19)
max_length == 128

\* The tokenizer: one token per character, truncated at max_length
\* (evaluate_model.py line 40).
Tokenize(text) ==
    SubSeq(text, 1, IF Len(text) < max_length THEN Len(text) ELSE max_length)

\* The loss of one token under the model.
TokenLoss(tok) == IF tok = "a" THEN 1 ELSE 2

RECURSIVE SumLoss(_)
SumLoss(tokens) ==
    IF tokens = <<>> THEN 0 ELSE TokenLoss(Head(tokens)) + SumLoss(Tail(tokens))

\* outputs.loss (evaluate_model.py lines 44-45): the mean loss of the
\* tokens of the line.
LineLoss(tokens) == Norm(<<SumLoss(tokens), Len(tokens)>>)

\* What a model that does not raise on an empty input returns as its loss.
EmptyLineLosses == {FromInt(1), FromInt(2)}

\* A mutant of AddLoss: every line counts the same, whatever its length.
AddLossUnweighted(total, loss, n) == RatAdd(total, loss)

\* evaluate_model.py line 48: total_loss += loss.item() * input_ids.size(1)
AddLoss(total, loss, n) == RatAdd(total, RatMul(loss, FromInt(n)))

\* generate_sample_responses (evaluate_model.py lines 62-95) on the three
\* prompts of main: one record per prompt, in order.
SamplePrompts == <<"renewable", "climate", "carbon">>
SampleResults ==
    [i \in 1..Len(SamplePrompts) |->
        [prompt |-> SamplePrompts[i], response |-> "generated"]]

AbsentFile == [state |-> "absent", report |-> <<>>]
OldFile == [state |-> "old", report |-> <<>>]

EvalIdle ==
    /\ evPc = "unused"
    /\ valFile = MissingFile
    /\ perplexity_threshold = NoFloat
    /\ output_file = FALSE
    /\ outFile0 = AbsentFile
    /\ outFile = AbsentFile
    /\ validation_texts = <<>>
    /\ lineIdx = 0
    /\ total_loss = Zero
    /\ total_tokens = 0
    /\ scored = <<>>
    /\ perplexity = NoFloat
    /\ samples = <<>>
    /\ evaluation_results = <<>>
    /\ raisedAt = "none"
    /\ returned = <<>>
    /\ exitCode = -1
    /\ writes = 0

EvalInit ==
    /\ evPc = "start"
    /\ valFile \in ValidationFiles
    /\ perplexity_threshold \in Thresholds
    /\ output_file \in BOOLEAN
    /\ outFile0 \in {AbsentFile, OldFile}
    /\ outFile = outFile0
    /\ validation_texts = <<>>
    /\ lineIdx = 0
    /\ total_loss = Zero
    /\ total_tokens = 0
    /\ scored = <<>>
    /\ perplexity = NoFloat
    /\ samples = <<>>
    /\ evaluation_results = <<>>
    /\ raisedAt = "none"
    /\ returned = <<>>
    /\ exitCode = -1
    /\ writes = 0

\* An exception leaves main: the interpreter prints the traceback and the
\* process ends with status 1.
Raise(step) ==
    /\ evPc' = "raised"
    /\ raisedAt' = step
    /\ exitCode' = 1

\* evaluate_model.py lines 114-115: the tokenizer and the model are loaded
\* from model_dir, or from_pretrained raises.
EvLoad ==
    /\ evPc = "start"
    /\ \E ok \in BOOLEAN :
          IF ok
          THEN evPc' = "calc" /\ UNCHANGED <<raisedAt, exitCode>>
          ELSE Raise("load")
    /\ UNCHANGED <<valFile, perplexity_threshold, output_file, outFile0,
                   outFile, validation_texts, lineIdx, total_loss,
                   total_tokens, scored, perplexity, samples,
                   evaluation_results, returned, writes, notEval>>

\* evaluate_model.py lines 27-35: the file is read, stripped and split into
\* lines; an empty list of lines returns infinity.
CalcRead ==
    /\ evPc = "calc"
    /\ IF ~valFile.exists
       THEN /\ Raise("calc")
            /\ UNCHANGED <<validation_texts, lineIdx, perplexity>>
       ELSE LET texts == SplitAll(Strip(valFile.text), <<"\n">>)
            IN  /\ validation_texts' = texts
                /\ IF texts = <<>>
                   THEN /\ perplexity' = Infinity
                        /\ evPc' = "samples"
                        /\ UNCHANGED lineIdx
                   ELSE /\ lineIdx' = 1
                        /\ evPc' = "scoring"
                        /\ UNCHANGED perplexity
                /\ UNCHANGED <<raisedAt, exitCode>>
    /\ UNCHANGED <<valFile, perplexity_threshold, output_file, outFile0,
                   outFile, total_loss, total_tokens, scored, samples,
                   evaluation_results, returned, writes, notEval>>

\* evaluate_model.py lines 38-49: one line is tokenized and scored, and its
\* loss is added, weighted by its token count.  On a line without tokens
\* the model raises, or returns some loss.
CalcScoreLine ==
    /\ evPc = "scoring"
    /\ lineIdx <= Len(validation_texts)
    /\ LET input_ids == Tokenize(validation_texts[lineIdx])
           n == Len(input_ids)
       IN  \/ /\ \E loss \in IF n > 0 THEN {LineLoss(input_ids)}
                                      ELSE EmptyLineLosses :
                    /\ total_loss' = AddLoss(total_loss, loss, n)
                    /\ total_tokens' = total_tokens + n
                    /\ scored' = Append(scored, <<loss, n>>)
              /\ lineIdx' = lineIdx + 1
              /\ UNCHANGED <<evPc, raisedAt, exitCode>>
           \/ /\ n = 0
              /\ Raise("calc")
              /\ UNCHANGED <<total_loss, total_tokens, scored, lineIdx>>
    /\ UNCHANGED <<valFile, perplexity_threshold, output_file, outFile0,
                   outFile, validation_texts, perplexity, samples,
                   evaluation_results, returned, writes, notEval>>

\* evaluate_model.py lines 52-59: the average loss and its exponential;
\* the division raises ZeroDivisionError when no token was counted.
CalcFinish ==
    /\ evPc = "scoring"
    /\ lineIdx > Len(validation_texts)
    /\ IF total_tokens = 0
       THEN Raise("calc") /\ UNCHANGED perplexity
       ELSE /\ perplexity' = ExpOf(RatDiv(total_loss, FromInt(total_tokens)))
            /\ evPc' = "samples"
            /\ UNCHANGED <<raisedAt, exitCode>>
    /\ UNCHANGED <<valFile, perplexity_threshold, output_file, outFile0,
                   outFile, validation_texts, lineIdx, total_loss,
                   total_tokens, scored, samples, evaluation_results,
                   returned, writes, notEval>>

\* The report of evaluate_model.py lines 132-137.
Report(p, threshold, gens) ==
    [perplexity |-> p,
     perplexity_threshold |-> threshold,
     sample_generations |-> gens,
     evaluation_passed |-> FloatLE(p, threshold)]

\* A main that saves the report of a passing evaluation only.
EvSamplesSavePassing ==
    /\ evPc = "samples"
    /\ \E ok \in BOOLEAN :
          IF ok
          THEN /\ samples' = SampleResults
               /\ evaluation_results' =
                      <<Report(perplexity, perplexity_threshold, SampleResults)>>
               /\ evPc' = IF output_file
                             /\ FloatLE(perplexity, perplexity_threshold)
                          THEN "open" ELSE "verdict"
               /\ UNCHANGED <<raisedAt, exitCode>>
          ELSE /\ Raise("samples")
               /\ UNCHANGED <<samples, evaluation_results>>
    /\ UNCHANGED <<valFile, perplexity_threshold, output_file, outFile0,
                   outFile, validation_texts, lineIdx, total_loss,
                   total_tokens, scored, perplexity, returned, writes,
                   notEval>>

\* evaluate_model.py lines 129-137: the samples are generated (or generate
\* raises) and the report is built.
EvSamples ==
    /\ evPc = "samples"
    /\ \E ok \in BOOLEAN :
          IF ok
          THEN /\ samples' = SampleResults
               /\ evaluation_results' =
                      <<Report(perplexity, perplexity_threshold, SampleResults)>>
               /\ evPc' = IF output_file THEN "open" ELSE "verdict"
               /\ UNCHANGED <<raisedAt, exitCode>>
          ELSE /\ Raise("samples")
               /\ UNCHANGED <<samples, evaluation_results>>
    /\ UNCHANGED <<valFile, perplexity_threshold, output_file, outFile0,
                   outFile, validation_texts, lineIdx, total_loss,
                   total_tokens, scored, perplexity, returned, writes,
                   notEval>>

\* evaluate_model.py line 141: open(output_file, "w") truncates the file,
\* or raises and leaves it alone.
EvOpen ==
    /\ evPc = "open"
    /\ \E ok \in BOOLEAN :
          IF ok
          THEN /\ outFile' = [state |-> "empty", report |-> <<>>]
               /\ evPc' = "dump"
               /\ UNCHANGED <<raisedAt, exitCode>>
          ELSE Raise("save") /\ UNCHANGED outFile
    /\ UNCHANGED <<valFile, perplexity_threshold, output_file, outFile0,
                   validation_texts, lineIdx, total_loss, total_tokens, scored,
                   perplexity, samples, evaluation_results, returned, writes,
                   notEval>>

\* evaluate_model.py line 142: json.dump writes the report piece by piece
\* into the open file; a write that fails leaves what was written so far.
EvDump ==
    /\ evPc = "dump"
    /\ \/ /\ outFile' = [state |-> "complete", report |-> evaluation_results]
          /\ writes' = writes + 1
          /\ evPc' = "verdict"
          /\ UNCHANGED <<raisedAt, exitCode>>
       \/ /\ \E st \in {"empty", "partial"} :
                outFile' = [state |-> st, report |-> <<>>]
          /\ Raise("save")
          /\ UNCHANGED writes
    /\ UNCHANGED <<valFile, perplexity_threshold, output_file, outFile0,
                   validation_texts, lineIdx, total_loss, total_tokens, scored,
                   perplexity, samples, evaluation_results, returned, notEval>>

\* evaluate_model.py lines 146-151: the verdict main returns.
EvVerdict ==
    /\ evPc = "verdict"
    /\ returned' = <<FloatLE(perplexity, perplexity_threshold)>>
    /\ evPc' = "returned"
    /\ UNCHANGED <<valFile, perplexity_threshold, output_file, outFile0,
                   outFile, validation_texts, lineIdx, total_loss,
                   total_tokens, scored, perplexity, samples,
                   evaluation_results, raisedAt, exitCode, writes, notEval>>

\* evaluate_model.py line 192: exit(0 if success else 1)
EvExit ==
    /\ evPc = "returned"
    /\ exitCode' = IF returned[1] THEN 0 ELSE 1
    /\ evPc' = "exited"
    /\ UNCHANGED <<valFile, perplexity_threshold, output_file, outFile0,
                   outFile, validation_texts, lineIdx, total_loss,
                   total_tokens, scored, perplexity, samples,
                   evaluation_results, raisedAt, returned, writes, notEval>>

EvalNext ==
    \/ EvLoad
    \/ CalcRead
    \/ CalcScoreLine
    \/ CalcFinish
    \/ EvSamples
    \/ EvOpen
    \/ EvDump
    \/ EvVerdict
    \/ EvExit

-----------------------------------------------------------------------------
(* create_tiny_model.py: runs of main.                                     *)

\* The runs of main in one behaviour.
MaxRuns == 2

BucketPath == "gs://bucket/model"
GcsPaths == {"", BucketPath}

\* How a gsutil call ends: exit status 0, a non-zero exit status
\* (CalledProcessError), or the command cannot be run (FileNotFoundError).
TransferOutcomes == {"ok", "nonzero", "cannot_run"}

EmptyDir == [tokenizer |-> FALSE, model |-> "none"]

CreateIdle ==
    /\ crPc = "unused"
    /\ runs = 0
    /\ train = FALSE
    /\ force_train = FALSE
    /\ gcs_path = ""
    /\ gcsModel = "none"
    /\ modelDir = EmptyDir
    /\ memModel = "none"
    /\ crLog = <<>>
    /\ crFailed = {}
    /\ crRaisedAt = "none"

CreateInit ==
    /\ crPc = "idle"
    /\ runs = 0
    /\ train = FALSE
    /\ force_train = FALSE
    /\ gcs_path = ""
    /\ gcsModel \in {"none", "tuned"}
    /\ modelDir = EmptyDir
    /\ memModel = "none"
    /\ crLog = <<>>
    /\ crFailed = {}
    /\ crRaisedAt = "none"

\* download_model_from_gcs (create_tiny_model.py lines 55-69): True when
\* gsutil exits with 0, False when it exits with another status; any other
\* exception leaves the function.
DownloadResult(outcome) ==
    [returns |-> outcome = "ok", raises |-> outcome = "cannot_run"]

\* upload_model_to_gcs (create_tiny_model.py lines 72-81): check_call is
\* not guarded, so every failure leaves the function.
UploadResult(outcome) == [raises |-> outcome # "ok"]

\* main is called (create_tiny_model.py lines 165-168).
CrStart ==
    /\ crPc \in {"idle", "returned", "raised"}
    /\ runs < MaxRuns
    /\ runs' = runs + 1
    /\ train' \in BOOLEAN
    /\ force_train' \in BOOLEAN
    /\ gcs_path' \in GcsPaths
    /\ crPc' = "reuse"
    /\ memModel' = "none"
    /\ crLog' = <<>>
    /\ crFailed' = {}
    /\ crRaisedAt' = "none"
    /\ UNCHANGED <<gcsModel, modelDir, notCreate>>

\* A main that tries the download only when train is not set, so that
\* train creates the model locally although one is on GCS.
CrReuseUnlessTrain ==
    /\ crPc = "reuse"
    /\ IF gcs_path # "" /\ ~force_train /\ ~train
       THEN \E outcome \in TransferOutcomes :
               /\ outcome = "ok" => gcsModel # "none"
               /\ crLog' = Append(crLog, "download")
               /\ LET res == DownloadResult(outcome)
                  IN  IF res.raises
                      THEN /\ crPc' = "raised"
                           /\ crRaisedAt' = "download"
                           /\ crFailed' = crFailed \cup {"download"}
                           /\ UNCHANGED modelDir
                      ELSE IF res.returns
                      THEN /\ crPc' = "returned"
                           /\ modelDir' = [tokenizer |-> TRUE, model |-> gcsModel]
                           /\ UNCHANGED <<crRaisedAt, crFailed>>
                      ELSE /\ crPc' = "load"
                           /\ crFailed' = crFailed \cup {"download"}
                           /\ UNCHANGED <<crRaisedAt, modelDir>>
       ELSE /\ crPc' = "load"
            /\ UNCHANGED <<crLog, crRaisedAt, crFailed, modelDir>>
    /\ UNCHANGED <<runs, train, force_train, gcs_path, gcsModel, memModel,
                   notCreate>>

\* A main that tries the download whenever a GCS path is given, force_train
\* or not.
CrReuseIgnoresForce ==
    /\ crPc = "reuse"
    /\ IF gcs_path # ""
       THEN \E outcome \in TransferOutcomes :
               /\ outcome = "ok" => gcsModel # "none"
               /\ crLog' = Append(crLog, "download")
               /\ LET res == DownloadResult(outcome)
                  IN  IF res.raises
                      THEN /\ crPc' = "raised"
                           /\ crRaisedAt' = "download"
                           /\ crFailed' = crFailed \cup {"download"}
                           /\ UNCHANGED modelDir
                      ELSE IF res.returns
                      THEN /\ crPc' = "returned"
                           /\ modelDir' = [tokenizer |-> TRUE, model |-> gcsModel]
                           /\ UNCHANGED <<crRaisedAt, crFailed>>
                      ELSE /\ crPc' = "load"
                           /\ crFailed' = crFailed \cup {"download"}
                           /\ UNCHANGED <<crRaisedAt, modelDir>>
       ELSE /\ crPc' = "load"
            /\ UNCHANGED <<crLog, crRaisedAt, crFailed, modelDir>>
    /\ UNCHANGED <<runs, train, force_train, gcs_path, gcsModel, memModel,
                   notCreate>>

\* A main that goes on to create the model after a successful download.
CrReuseNoReturn ==
    /\ crPc = "reuse"
    /\ IF gcs_path # "" /\ ~force_train
       THEN \E outcome \in TransferOutcomes :
               /\ outcome = "ok" => gcsModel # "none"
               /\ crLog' = Append(crLog, "download")
               /\ IF DownloadResult(outcome).raises
                  THEN /\ crPc' = "raised"
                       /\ crRaisedAt' = "download"
                       /\ crFailed' = crFailed \cup {"download"}
                       /\ UNCHANGED modelDir
                  ELSE /\ crPc' = "load"
                       /\ crFailed' = IF DownloadResult(outcome).returns
                                      THEN crFailed
                                      ELSE crFailed \cup {"download"}
                       /\ modelDir' = IF DownloadResult(outcome).returns
                                      THEN [tokenizer |-> TRUE, model |-> gcsModel]
                                      ELSE modelDir
                       /\ UNCHANGED crRaisedAt
       ELSE /\ crPc' = "load"
            /\ UNCHANGED <<crLog, crRaisedAt, crFailed, modelDir>>
    /\ UNCHANGED <<runs, train, force_train, gcs_path, gcsModel, memModel,
                   notCreate>>

\* create_tiny_model.py lines 170-175: with a GCS path and without
\* force_train the download is tried, and main returns when it succeeds.
\* gsutil exits with 0 only when the bucket path holds a model.
CrReuse ==
    /\ crPc = "reuse"
    /\ IF gcs_path # "" /\ ~force_train
       THEN \E outcome \in TransferOutcomes :
               /\ outcome = "ok" => gcsModel # "none"
               /\ crLog' = Append(crLog, "download")
               /\ LET res == DownloadResult(outcome)
                  IN  IF res.raises
                      THEN /\ crPc' = "raised"
                           /\ crRaisedAt' = "download"
                           /\ crFailed' = crFailed \cup {"download"}
                           /\ UNCHANGED modelDir
                      ELSE IF res.returns
                      THEN /\ crPc' = "returned"
                           /\ modelDir' = [tokenizer |-> TRUE, model |-> gcsModel]
                           /\ UNCHANGED <<crRaisedAt, crFailed>>
                      ELSE /\ crPc' = "load"
                           /\ crFailed' = crFailed \cup {"download"}
                           /\ UNCHANGED <<crRaisedAt, modelDir>>
       ELSE /\ crPc' = "load"
            /\ UNCHANGED <<crLog, crRaisedAt, crFailed, modelDir>>
    /\ UNCHANGED <<runs, train, force_train, gcs_path, gcsModel, memModel,
                   notCreate>>

\* create_tiny_model.py lines 181-182: the distilgpt2 tokenizer and model
\* are loaded; either from_pretrained may raise.
CrLoad ==
    /\ crPc = "load"
    /\ \E got \in 0..2 :
          /\ crLog' = crLog \o SubSeq(<<"load_tokenizer", "load_model">>, 1,
                                      IF got = 2 THEN 2 ELSE got + 1)
          /\ IF got = 2
             THEN /\ crPc' = "save_tokenizer"
                  /\ memModel' = "base"
                  /\ UNCHANGED crRaisedAt
             ELSE /\ crPc' = "raised"
                  /\ crRaisedAt' = "load"
                  /\ UNCHANGED memModel
    /\ UNCHANGED <<runs, train, force_train, gcs_path, gcsModel, modelDir,
                   crFailed, notCreate>>

\* create_tiny_model.py line 185
CrSaveTokenizer ==
    /\ crPc = "save_tokenizer"
    /\ modelDir' = [modelDir EXCEPT !.tokenizer = TRUE]
    /\ crLog' = Append(crLog, "save_tokenizer")
    /\ crPc' = "fine_tune"
    /\ UNCHANGED <<runs, train, force_train, gcs_path, gcsModel, memModel,
                   crFailed, crRaisedAt, notCreate>>

\* A main that goes on to save the model after fine_tune_model raised.
CrFineTuneGoesOn ==
    /\ crPc = "fine_tune"
    /\ IF train \/ force_train
       THEN /\ crLog' = Append(crLog, "fine_tune")
            /\ crPc' = "save_model"
            /\ \E ok \in BOOLEAN :
                  IF ok
                  THEN /\ memModel' = "tuned"
                       /\ UNCHANGED crRaisedAt
                  ELSE /\ crRaisedAt' = "fine_tune"
                       /\ UNCHANGED memModel
       ELSE /\ crPc' = "save_model"
            /\ UNCHANGED <<crLog, memModel, crRaisedAt>>
    /\ UNCHANGED <<runs, train, force_train, gcs_path, gcsModel, modelDir,
                   crFailed, notCreate>>

\* A main that fine-tunes only when train is set.
CrFineTuneTrainOnly ==
    /\ crPc = "fine_tune"
    /\ IF train
       THEN /\ crLog' = Append(crLog, "fine_tune")
            /\ \E ok \in BOOLEAN :
                  IF ok
                  THEN /\ memModel' = "tuned"
                       /\ crPc' = "save_model"
                       /\ UNCHANGED crRaisedAt
                  ELSE /\ crPc' = "raised"
                       /\ crRaisedAt' = "fine_tune"
                       /\ UNCHANGED memModel
       ELSE /\ crPc' = "save_model"
            /\ UNCHANGED <<crLog, memModel, crRaisedAt>>
    /\ UNCHANGED <<runs, train, force_train, gcs_path, gcsModel, modelDir,
                   crFailed, notCreate>>

\* create_tiny_model.py lines 188-190: fine_tune_model is called when train
\* or force_train is set; it trains the model in memory, or raises.
CrFineTune ==
    /\ crPc = "fine_tune"
    /\ IF train \/ force_train
       THEN /\ crLog' = Append(crLog, "fine_tune")
            /\ \E ok \in BOOLEAN :
                  IF ok
                  THEN /\ memModel' = "tuned"
                       /\ crPc' = "save_model"
                       /\ UNCHANGED crRaisedAt
                  ELSE /\ crPc' = "raised"
                       /\ crRaisedAt' = "fine_tune"
                       /\ UNCHANGED memModel
       ELSE /\ crPc' = "save_model"
            /\ UNCHANGED <<crLog, memModel, crRaisedAt>>
    /\ UNCHANGED <<runs, train, force_train, gcs_path, gcsModel, modelDir,
                   crFailed, notCreate>>

\* create_tiny_model.py lines 193-194
CrSaveModel ==
    /\ crPc = "save_model"
    /\ modelDir' = [modelDir EXCEPT !.model = memModel]
    /\ crLog' = Append(crLog, "save_model")
    /\ crPc' = "upload"
    /\ UNCHANGED <<runs, train, force_train, gcs_path, gcsModel, memModel,
                   crFailed, crRaisedAt, notCreate>>

\* create_tiny_model.py lines 197-198: with a GCS path the model directory
\* is uploaded; then main returns.
CrUpload ==
    /\ crPc = "upload"
    /\ IF gcs_path # ""
       THEN \E outcome \in TransferOutcomes :
               /\ crLog' = Append(crLog, "upload")
               /\ gcsModel' = IF outcome = "ok" THEN modelDir.model ELSE gcsModel
               /\ crFailed' = IF outcome = "ok" THEN crFailed
                              ELSE crFailed \cup {"upload"}
               /\ IF UploadResult(outcome).raises
                  THEN crPc' = "raised" /\ crRaisedAt' = "upload"
                  ELSE crPc' = "returned" /\ UNCHANGED crRaisedAt
       ELSE /\ crPc' = "returned"
            /\ UNCHANGED <<crLog, gcsModel, crFailed, crRaisedAt>>
    /\ UNCHANGED <<runs, train, force_train, gcs_path, modelDir, memModel,
                   notCreate>>

CreateNext ==
    \/ CrStart
    \/ CrReuse
    \/ CrLoad
    \/ CrSaveTokenizer
    \/ CrFineTune
    \/ CrSaveModel
    \/ CrUpload

\* Runs of main that share one GCS path which starts empty and is written
\* by these runs only: a download that is tried fails exactly when no
\* earlier run has uploaded a model (gsutil cp, create_tiny_model.py lines
\* 61-66, finds nothing to copy).
ReliableDownload ==
    (crPc = "reuse" /\ crLog' # crLog) =>
        (("download" \in crFailed') <=> gcsModel = "none")

CrReuseShared == CrReuse /\ ReliableDownload

CreateSharedNext ==
    \/ CrStart
    \/ CrReuseShared
    \/ CrLoad
    \/ CrSaveTokenizer
    \/ CrFineTune
    \/ CrSaveModel
    \/ CrUpload


-----------------------------------------------------------------------------
(* The specifications, one per program.                                    *)

InitExtract == ExInit /\ ApiIdle /\ EvalIdle /\ CreateIdle
SpecExtract == InitExtract /\ [][ExNext]_vars

InitApi == ApiInit /\ ExIdle /\ EvalIdle /\ CreateIdle
SpecApi == InitApi /\ [][ApiNext]_vars

InitEval == EvalInit /\ ExIdle /\ ApiIdle /\ CreateIdle
SpecEval == InitEval /\ [][EvalNext]_vars

InitCreate == CreateInit /\ ExIdle /\ ApiIdle /\ EvalIdle
SpecCreate == InitCreate /\ [][CreateNext]_vars

InitCreateShared == InitCreate /\ gcsModel = "none"
SpecCreateShared == InitCreateShared /\ [][CreateSharedNext]_vars

-----------------------------------------------------------------------------
(* Properties of the response extraction (SpecExtract).                    *)

NoOuterWhitespace(s) ==
    s = <<>> \/ (s[1] \notin Whitespace /\ s[Len(s)] \notin Whitespace)

\* r is s without its leading and trailing whitespace
IsStripOf(r, s) ==
    /\ NoOuterWhitespace(r)
    /\ \E i \in 1..(Len(s) + 1), j \in 0..Len(s) :
          /\ r = SubSeq(s, i, j)
          /\ \A k \in 1..(i - 1) : s[k] \in Whitespace
          /\ \A k \in (j + 1)..Len(s) : s[k] \in Whitespace

\* C4: the extracted response never has leading or trailing whitespace,
\* with or without the marker in the decoded text, and extracting again
\* from a result without the marker returns the same string.
C4_ExtractTrimmedAndIdempotent ==
    /\ exPc \in {"extracted", "again"} => NoOuterWhitespace(exResult)
    /\ (exPc = "again" /\ ~Contains(exResult, Marker)) => exAgain = exResult

\* C5: when the decoded text contains the marker, the response is the text
\* after the first occurrence of the marker, trimmed of surrounding
\* whitespace (later markers stay); "... Bot: Hi there" gives "Hi there".
C5_TextAfterFirstMarker ==
    /\ (exPc \in {"extracted", "again"} /\ Contains(exDecoded, Marker)) =>
           \E i \in 1..Len(exDecoded) :
              /\ OccursAt(exDecoded, Marker, i)
              /\ \A j \in 1..(i - 1) : ~OccursAt(exDecoded, Marker, j)
              /\ IsStripOf(exResult,
                           SubSeq(exDecoded, i + Len(Marker), Len(exDecoded)))
    /\ (exPc \in {"extracted", "again"} /\ exDecoded = ExampleDecoded) =>
           exResult = ExampleResponse

\* A decoded text with two markers was extracted: the second marker is in
\* the response, and whitespace was trimmed.
C5_Witness ==
    /\ exPc = "extracted"
    /\ Contains(exDecoded, Marker)
    /\ Contains(exResult, Marker)
    /\ Len(exResult) + Len(Marker) < Len(exDecoded)

-----------------------------------------------------------------------------
(* Properties of the serving process (SpecApi).                            *)

\* C3: a failure of tokenization, generation or decoding in POST /generate
\* is caught inside the handler and answered with a non-2xx status and a
\* JSON error body, and the process keeps serving.
C3_FailureCaughtAsJsonError ==
    \A r \in ReqIds :
        (reqs[r].pc = "responded"
            /\ reqs[r].failedAt \in {"encode", "generate", "decode"}) =>
            /\ reqs[r].response.caught = "handler"
            /\ reqs[r].response.status \notin 200..299
            /\ reqs[r].response.kind = "json"
            /\ srvPc = "serving"

UserBot(text) == <<"U", "s", "e", "r", ":", " ">> \o text \o <<"\n">> \o Marker

\* C6: POST /generate without a prompt key (an empty JSON object, or no
\* JSON body) behaves as with prompt "": the same text, containing
\* "User: \nBot:", goes to the tokenizer, and the request succeeds with 200.
C6_NoPromptKeyIsEmptyPrompt ==
    \A r \in ReqIds :
        (reqs[r].route = "generate"
            /\ reqs[r].pc \in {"parsed", "encoded", "generated", "responded"}
            /\ reqs[r].body.kind \in {"none", "object"}
            /\ ~reqs[r].body.has_prompt) =>
            /\ reqs[r].failedAt # "parse"
            /\ reqs[r].user_input = JsonStr(<<>>)
            /\ reqs[r].combined # NoText =>
                   /\ reqs[r].combined = system_prompt \o <<"\n">> \o UserBot(<<>>)
                   /\ Contains(reqs[r].combined, UserBot(<<>>))
            /\ (reqs[r].pc = "responded" /\ reqs[r].failedAt = "none") =>
                   reqs[r].response.status = 200

\* The text of the prompt a request carries: the string itself; "" without
\* the key; a JSON null as the f-string renders it.
CarriedPrompt(body) ==
    IF ~body.has_prompt THEN <<>>
    ELSE IF body.prompt.t = "str" THEN body.prompt.v
    ELSE <<"N", "o", "n", "e">>

\* C7: for every prompt a request carries, the text handed to the tokenizer
\* is system_prompt + "\nUser: " + prompt + "\nBot:", so it contains
\* "User: " + prompt + "\nBot:" with the prompt verbatim.
C7_CombinedTextIsTemplate ==
    \A r \in ReqIds :
        reqs[r].combined # NoText =>
            LET p == CarriedPrompt(reqs[r].body)
            IN  /\ reqs[r].combined = system_prompt \o <<"\n">> \o UserBot(p)
                /\ Contains(reqs[r].combined, UserBot(p))

\* A prompt that itself contains "Bot:" and one with leading whitespace have
\* both been handed to the tokenizer.
C7_Witness ==
    /\ \E r \in ReqIds :
          reqs[r].combined # NoText /\ reqs[r].body.prompt = JsonStr(Marker)
    /\ \E r \in ReqIds :
          reqs[r].combined # NoText /\ reqs[r].body.prompt = JsonStr(<<" ", "x">>)

-----------------------------------------------------------------------------
(* Properties of the evaluation run (SpecEval).                            *)

\* perplexity <= threshold, from the numbers themselves
WithinThreshold ==
    IF perplexity.inf THEN perplexity_threshold.inf
    ELSE \/ perplexity_threshold.inf
         \/ perplexity.ln[1] * perplexity_threshold.ln[2]
                <= perplexity_threshold.ln[1] * perplexity.ln[2]

\* C1: a run reports a pass exactly when perplexity <= threshold, the
\* boundary included: the evaluation_passed field of the report, the value
\* main returns and the exit status (0 pass, 1 fail) agree with it.
C1_PassIffWithinThreshold ==
    /\ evaluation_results # <<>> =>
           (evaluation_results[1].evaluation_passed <=> WithinThreshold)
    /\ returned # <<>> => (returned[1] <=> WithinThreshold)
    /\ evPc = "exited" => exitCode = (IF WithinThreshold THEN 0 ELSE 1)

\* A run whose perplexity equals the threshold has exited, with status 0.
C1_Witness ==
    /\ evPc = "exited"
    /\ perplexity = perplexity_threshold
    /\ exitCode = 0
    /\ evaluation_results[1].evaluation_passed

EmptyCorpus == valFile.exists /\ Strip(valFile.text) = <<>>

\* C2: on an empty validation corpus calculate_perplexity returns
\* +infinity and does not raise: no line is scored and the division by the
\* token count is not reached.
C2_EmptyCorpusGivesInfinity ==
    EmptyCorpus =>
        /\ raisedAt # "calc"
        /\ ~(evPc = "scoring" /\ lineIdx > Len(validation_texts)
                /\ total_tokens = 0)
        /\ evPc \in {"samples", "open", "dump", "verdict", "returned", "exited"}
               => perplexity = Infinity

RECURSIVE WeightedLoss(_)
WeightedLoss(lines) ==
    IF lines = <<>> THEN Zero
    ELSE LET l == Head(lines)
             rest == WeightedLoss(Tail(lines))
         IN  Norm(<<(l[1][1] * l[2]) * rest[2] + rest[1] * l[1][2],
                    l[1][2] * rest[2]>>)

RECURSIVE TokenCount(_)
TokenCount(lines) ==
    IF lines = <<>> THEN 0 ELSE Head(lines)[2] + TokenCount(Tail(lines))

IsToken(c) == c # "\n"

\* The tokens of the corpus, whatever the lines they are split into.
CorpusTokens == SelectSeq(valFile.text, IsToken)

CalcReturned ==
    /\ evPc \in {"samples", "open", "dump", "verdict", "returned", "exited"}
    /\ ~perplexity.inf

\* C8: lines are weighted by token count.  Once every line is scored once,
\* the average loss is (sum of line loss x line tokens) / (sum of line
\* tokens); so the perplexity is exp(sum of the token losses / number of
\* tokens), the same however the tokens are split into lines.
C8_TokenWeightedAverage ==
    CalcReturned =>
        /\ Len(scored) = Len(validation_texts)
        /\ total_tokens = TokenCount(scored)
        /\ total_loss = WeightedLoss(scored)
        /\ perplexity.ln[1] * (WeightedLoss(scored)[2] * TokenCount(scored))
               = WeightedLoss(scored)[1] * perplexity.ln[2]
        /\ perplexity.ln[1] * Len(CorpusTokens)
               = SumLoss(CorpusTokens) * perplexity.ln[2]

\* A corpus of two lines of different lengths and different losses has been
\* scored.
C8_Witness ==
    /\ CalcReturned
    /\ Len(scored) = 2
    /\ scored[1][2] # scored[2][2]
    /\ scored[1][1] # scored[2][1]

\* C10: when a run fails at any step, the output file is absent or
\* unchanged, or holds one complete report: never a partial one.
C10_NoPartialOutputOnFailure ==
    evPc = "raised" => (outFile = outFile0 \/ outFile.state = "complete")

-----------------------------------------------------------------------------
(* Properties of the model creation run (SpecCreate).                      *)

\* C9: a failed transfer, download or upload, a non-zero exit or a command
\* that cannot be run, is never fatal to main: main falls back to or keeps
\* the locally created model and returns normally.
C9_TransferFailureNotFatal ==
    /\ crRaisedAt \notin {"download", "upload"}
    /\ "upload" \in crFailed => crPc = "returned"
    /\ (crPc = "returned" /\ crFailed # {}) =>
           (modelDir.model = memModel /\ memModel # "none")

\* The steps of the current run of main, in the order they were made.
Occurrences(log, step) == Cardinality({i \in 1..Len(log) : log[i] = step})

\* The download of the current run was tried and gsutil exited with 0.
DownloadSucceeded ==
    /\ crLog # <<>>
    /\ crLog[1] = "download"
    /\ "download" \notin crFailed

\* C11: with a GCS path, without force_train and with a successful
\* download, main returns right after the download, whatever train is:
\* nothing is loaded, fine-tuned, saved or uploaded, and the model directory
\* holds what was downloaded.
C11_DownloadShortcut ==
    (crPc # "reuse" /\ DownloadSucceeded) =>
        /\ gcs_path # "" /\ ~force_train
        /\ crPc = "returned"
        /\ crLog = <<"download">>
        /\ memModel = "none"
        /\ crRaisedAt = "none"
        /\ modelDir = [tokenizer |-> TRUE, model |-> gcsModel]

\* A run with train set has returned after a successful download.
C11_Witness ==
    /\ crPc = "returned"
    /\ DownloadSucceeded
    /\ train

\* The current run returned right after a successful download.
TookShortcut == crPc = "returned" /\ crLog = <<"download">>

\* The current run of main is over: it returned or an exception left it.
RunOver == crPc \in {"returned", "raised"}

\* The loads, the fine-tuning and the upload the arguments of the run ask
\* for have each been made exactly once, and no others.
StepsAsRequested ==
    /\ Occurrences(crLog, "load_tokenizer") = 1
    /\ Occurrences(crLog, "load_model") = 1
    /\ Occurrences(crLog, "fine_tune") = (IF train \/ force_train THEN 1 ELSE 0)
    /\ Occurrences(crLog, "upload") = (IF gcs_path # "" THEN 1 ELSE 0)

StepRank(step) ==
    CASE step = "download" -> 1
      [] step = "load_tokenizer" -> 2
      [] step = "load_model" -> 3
      [] step = "save_tokenizer" -> 4
      [] step = "fine_tune" -> 5
      [] step = "save_model" -> 6
      [] step = "upload" -> 7

Made(step) == Occurrences(crLog, step) > 0

\* C18: in a run that does not take the download shortcut the steps are
\* made in the order tokenizer saved, fine-tuning (if requested), model
\* saved, upload (if a GCS path is set), none of them skipped: an upload
\* comes after the model of the same run was saved, and when fine-tuning
\* raises the tokenizer is saved while the model is neither saved nor
\* uploaded.
C18_SaveTrainSaveUpload ==
    /\ \A i, j \in 1..Len(crLog) :
          i < j => StepRank(crLog[i]) < StepRank(crLog[j])
    /\ Made("upload") => (Made("save_model") /\ modelDir.model = memModel)
    /\ Made("save_model") =>
          /\ Made("save_tokenizer")
          /\ (train \/ force_train) => Made("fine_tune")
    /\ Made("fine_tune") => (Made("save_tokenizer") /\ modelDir.tokenizer)
    /\ (crPc = "returned" /\ ~TookShortcut) =>
          /\ Made("save_tokenizer") /\ Made("save_model")
          /\ gcs_path # "" => Made("upload")
    /\ crRaisedAt = "fine_tune" =>
          /\ crPc = "raised"
          /\ modelDir.tokenizer
          /\ ~Made("save_model")
          /\ ~Made("upload")

\* Fine-tuning has raised in a run with a GCS path.
C18_Witness ==
    /\ crRaisedAt = "fine_tune"
    /\ gcs_path # ""
    /\ crLog[Len(crLog)] = "fine_tune"

-----------------------------------------------------------------------------
(* Properties of runs sharing one GCS path (SpecCreateShared).             *)

\* C19: once a run has uploaded a model to the shared path, be it the base
\* model of a run without train, every later run with that path and without
\* force_train returns right after the download, train or not, loading,
\* fine-tuning and uploading nothing; the uploaded model is replaced only by
\* a run with force_train.
C19_UploadedModelIsKept ==
    [][gcsModel # "none" =>
          /\ (crPc = "reuse" /\ gcs_path # "" /\ ~force_train) =>
                /\ crPc' = "returned"
                /\ crLog' = <<"download">>
                /\ modelDir' = [tokenizer |-> TRUE, model |-> gcsModel]
                /\ UNCHANGED <<gcsModel, memModel>>
          /\ (crPc \in {"load", "save_tokenizer", "fine_tune", "save_model",
                        "upload"} /\ gcs_path # "") => force_train
          /\ gcsModel' # gcsModel => (force_train /\ gcsModel' = "tuned")
      ]_vars

\* The first run uploaded the base model, and a second run with train and
\* without force_train has returned right after downloading it.
C19_Witness ==
    /\ runs = 2
    /\ gcsModel = "base"
    /\ train /\ ~force_train /\ gcs_path # ""
    /\ TookShortcut
    /\ modelDir.model = "base"

-----------------------------------------------------------------------------
(* Further properties of the API (SpecApi).                                *)

\* model.generate has been called for the request of connection r.
GenerateCalled(r) ==
    \/ reqs[r].pc = "generated"
    \/ reqs[r].failedAt \in {"generate", "decode"}
    \/ reqs[r].pc = "responded" /\ reqs[r].route = "generate"
          /\ reqs[r].failedAt = "none"

AllLoaded ==
    /\ promptFile.exists
    /\ system_prompt = Strip(promptFile.text)
    /\ tokenizer = "loaded"
    /\ model = "loaded"

\* Some connection has carried a request.
SomeRequestTaken == \E r \in ReqIds : reqs[r] # IdleReq

\* C14: a request, on any route, is taken only by a process that loaded the
\* system prompt file, the tokenizer and the model at start-up; when one of
\* them cannot be loaded the start-up aborts, for good, and no request is
\* ever taken.
C14_ServesOnlyWhenAllLoaded ==
    /\ [](/\ SomeRequestTaken => (srvPc = "serving" /\ AllLoaded)
          /\ srvPc = "serving" => AllLoaded
          /\ ~promptFile.exists => srvPc \in {"boot", "aborted"}
          /\ srvPc = "aborted" =>
                (~SomeRequestTaken /\
                 (~promptFile.exists \/ tokenizer = "unset" \/ model = "unset")))
    /\ [][srvPc = "aborted" => UNCHANGED apiVars]_vars

\* The start-up has aborted because the model could not be loaded, after
\* the system prompt and the tokenizer were.
C14_Witness ==
    /\ srvPc = "aborted"
    /\ promptFile.exists
    /\ tokenizer = "loaded"
    /\ model = "unset"

\* The request of connection r is being handled or has been answered.
InHandler(r) == reqs[r].pc # "idle"

\* C17: while requests are handled the process-wide system prompt, tokenizer
\* and model stay the ones set at start-up; so, however the requests of the
\* connections interleave, the combined text of a request is made of the
\* start-up system prompt and of the prompt that request carries, and two
\* requests carrying the same prompt hand the same text to the tokenizer.
C17_HandlersLeaveGlobalsAlone ==
    /\ [][srvPc = "serving" => UNCHANGED <<system_prompt, tokenizer, model>>]_vars
    /\ [](\A r \in ReqIds :
             /\ InHandler(r) =>
                   /\ system_prompt = Strip(promptFile.text)
                   /\ tokenizer = "loaded"
                   /\ model = "loaded"
             /\ reqs[r].combined # NoText =>
                   /\ reqs[r].combined =
                          CombinedPrompt(Strip(promptFile.text),
                                         reqs[r].user_input)
                   /\ PyFormat(reqs[r].user_input) = CarriedPrompt(reqs[r].body)
                   /\ \A q \in ReqIds :
                         (reqs[q].combined # NoText
                             /\ CarriedPrompt(reqs[q].body)
                                    = CarriedPrompt(reqs[r].body)) =>
                             reqs[q].combined = reqs[r].combined)

\* Two requests with different prompts are in their handlers at once, each
\* between tokenizing and answering, after an earlier request was answered
\* with an error.
C17_Witness ==
    /\ reqs["c1"].pc \in {"encoded", "generated"}
    /\ reqs["c2"].pc \in {"encoded", "generated"}
    /\ reqs["c1"].user_input # reqs["c2"].user_input
    /\ reqs["c1"].after_error

-----------------------------------------------------------------------------
(* Further properties of the evaluation run (SpecEval).                    *)

\* The perplexity is calculated, the samples are generated and the report is
\* built.
SamplesDone == evaluation_results # <<>>

\* The run is past line 143: main is about to return, or has returned, its
\* verdict.
AtVerdict == evPc \in {"verdict", "returned", "exited"}

ReportKeys ==
    {"perplexity", "perplexity_threshold", "sample_generations",
     "evaluation_passed"}

\* The output file holds the report of this run, written once.
ReportWritten ==
    /\ writes = 1
    /\ outFile = [state |-> "complete", report |-> evaluation_results]
    /\ DOMAIN outFile.report[1] = ReportKeys

=============================================================================
